---- MODULE Spec2Model ----
(***************************************************************************)
(* Model of versioning/scripts/cloudbuild/main.go: the compilation of a    *)
(* versions manifest and a set of options into the Cloud Build template    *)
(* data (newCloudBuildTemplateData, filterTests, shouldParallelize), the   *)
(* execution of the text template over that data (renderCloudBuildConfig), *)
(* and the execution of the emitted steps under their waitFor/id graph.    *)
(*                                                                         *)
(* Strings are TLA+ strings and fmt.Sprintf is string concatenation, so    *)
(* two names are equal in the model exactly when the Go strings are.       *)
(***************************************************************************)
EXTENDS Integers, Sequences, FiniteSets, TLC

VARIABLES
    spec,       \* versions.Spec: [Versions |-> sequence of versions.Version]
    options,    \* cloudBuildOptions
    disk,       \* the tests directories: directory name -> sequence of entries
    pc,         \* "start", "compiled", "fatal", "panic", "rendered"
    at,         \* index in spec.Versions of the iteration that aborted (0: none)
    data,       \* cloudBuildTemplateData returned by newCloudBuildTemplateData
    result,     \* what template.Execute wrote: the emitted steps and images
    run         \* execution state of every emitted step

vars == <<spec, options, disk, pc, at, data, result, run>>

(***************************************************************************)
(* Bounds of the model.                                                    *)
(***************************************************************************)
MaxVersions == 2
MaxTags == 2
MaxFunctionalTests == 2
MaxExcludes == 2

(***************************************************************************)
(* Program constants.                                                      *)
(***************************************************************************)
registry == "gcr.io/p"
testsDir == "tests"
functionalTestsDir == "tests/functional_tests"
structureTestsDir == "tests/structure_tests"
testJsonSuffix == "_test.json"
testYamlSuffix == "_test.yaml"
workspacePrefix == "/workspace/"

(***************************************************************************)
(* Sequence helpers.                                                       *)
(***************************************************************************)
Range(s) == {s[k] : k \in 1..Len(s)}

SeqsUpTo(S, n) == UNION {[1..k -> S] : k \in 0..n}

RECURSIVE Flatten(_)
Flatten(ss) == IF Len(ss) = 0 THEN <<>> ELSE Head(ss) \o Flatten(Tail(ss))

\* Go's s[1:] on a non-empty slice.
SliceFrom1(s) == [k \in 1..(Len(s) - 1) |-> s[k + 1]]

(***************************************************************************)
(* readTests: the matching regular files of a directory, as workspace      *)
(* paths; a directory that does not exist gives no tests.                  *)
(***************************************************************************)
FileName(f) == f.Base \o f.Suffix

IsTestFile(f) == ~f.IsDir /\ f.Suffix \in {testJsonSuffix, testYamlSuffix}

readTests(dir) ==
    IF dir \in DOMAIN disk
    THEN LET files == SelectSeq(disk[dir], IsTestFile)
         IN [k \in 1..Len(files) |->
                workspacePrefix \o dir \o "/" \o FileName(files[k])]
    ELSE <<>>

(***************************************************************************)
(* filterTests.                                                            *)
(***************************************************************************)
\* Reading a Go map[string]bool: a missing key reads false.
Lookup(m, key) == IF key \in DOMAIN m THEN m[key] ELSE FALSE

\* The condition of the log.Fatalf in the exclusion loop.
NoSuchTest(included, key) == ~Lookup(included, key)

RECURSIVE Exclude(_, _, _)
Exclude(included, names, k) ==
    IF k > Len(names)
    THEN [fatal |-> FALSE, included |-> included]
    ELSE LET key == workspacePrefix \o names[k]
         IN IF NoSuchTest(included, key)
            THEN [fatal |-> TRUE, included |-> included]
            ELSE Exclude([included EXCEPT ![key] = FALSE], names, k + 1)

filterTests(structureTests, functionalTests, version) ==
    LET all == structureTests \o functionalTests
        r == Exclude([t \in Range(all) |-> TRUE], version.ExcludeTests, 1)
        In(t) == Lookup(r.included, t)
    IN [fatal |-> r.fatal,
        StructureTests |-> SelectSeq(structureTests, In),
        FunctionalTests |-> SelectSeq(functionalTests, In)]

(***************************************************************************)
(* shouldParallelize.                                                      *)
(***************************************************************************)
\* Variant: a single version already counts as several.
shouldParallelizeBug(opts, numberOfVersions, numberOfTests) ==
    IF opts.ForceParallel THEN TRUE
    ELSE IF ~opts.EnableParallel THEN FALSE
    ELSE numberOfVersions >= 1 \/ numberOfTests > 1

shouldParallelize(opts, numberOfVersions, numberOfTests) ==
    IF opts.ForceParallel THEN TRUE
    ELSE IF ~opts.EnableParallel THEN FALSE
    ELSE numberOfVersions > 1 \/ numberOfTests > 1

(***************************************************************************)
(* newCloudBuildTemplateData.                                              *)
(***************************************************************************)
\* Variant: options.Directories is not consulted.
DirsBug(sp, opts) == {sp.Versions[k].Dir : k \in 1..Len(sp.Versions)}

\* The set of directories to operate on (the keys of the dirs map).
Dirs(sp, opts) ==
    IF Len(opts.Directories) > 0
    THEN Range(opts.Directories)
    ELSE {sp.Versions[k].Dir : k \in 1..Len(sp.Versions)}

\* fmt.Sprintf("%v/%v:%v", registry, v.Repo, t)
ImageName(reg, repo, t) == reg \o "/" \o repo \o ":" \o t

\* Variant: the break under FirstTagOnly is missing.
TagImagesBug(reg, v, opts) ==
    [k \in 1..Len(v.Tags) |-> ImageName(reg, v.Repo, v.Tags[k])]

\* The inner loop over v.Tags, with its break under FirstTagOnly.
TagImages(reg, v, opts) ==
    LET n == IF opts.FirstTagOnly /\ Len(v.Tags) > 0 THEN 1 ELSE Len(v.Tags)
    IN [k \in 1..n |-> ImageName(reg, v.Repo, v.Tags[k])]

\* Variant: the !v.Builder guard is missing.
ShippedBug(v, images) == images

\* What a version adds to data.AllImages.
Shipped(v, images) == IF ~v.Builder THEN images ELSE <<>>

\* The version's entry of data.ImageBuilds; the caller has checked that
\* images is not empty when there is no builder image.
ImageBuild(reg, v, images, tests) ==
    IF v.BuilderImage # ""
    THEN [Directory |-> v.Dir,
          Tag |-> v.ImageNameFromBuilder,
          Aliases |-> images,
          StructureTests |-> tests.StructureTests,
          FunctionalTests |-> tests.FunctionalTests,
          Builder |-> v.Builder,
          BuilderImage |-> reg \o "/" \o v.BuilderImage,
          BuilderArgs |-> v.BuilderArgs,
          ImageNameFromBuilder |-> v.ImageNameFromBuilder]
    ELSE [Directory |-> v.Dir,
          Tag |-> images[1],
          Aliases |-> SliceFrom1(images),
          StructureTests |-> tests.StructureTests,
          FunctionalTests |-> tests.FunctionalTests,
          Builder |-> v.Builder,
          BuilderImage |-> v.BuilderImage,
          BuilderArgs |-> v.BuilderArgs,
          ImageNameFromBuilder |-> v.ImageNameFromBuilder]

\* The loop over spec.Versions from iteration i on; acc holds AllImages and
\* ImageBuilds as built so far.  log.Fatalf in filterTests and the index
\* out of range of images[0] end the program in the iteration they occur.
RECURSIVE VersionsLoop(_, _, _, _, _, _, _)
VersionsLoop(reg, sp, opts, sTests, fTests, i, acc) ==
    IF i > Len(sp.Versions)
    THEN [status |-> "compiled", at |-> 0,
          AllImages |-> acc.AllImages, ImageBuilds |-> acc.ImageBuilds]
    ELSE LET v == sp.Versions[i]
             images == TagImages(reg, v, opts)
             shipped == acc.AllImages \o Shipped(v, images)
             tests == filterTests(sTests, fTests, v)
         IN IF v.Dir \notin Dirs(sp, opts)
            THEN VersionsLoop(reg, sp, opts, sTests, fTests, i + 1, acc)
            ELSE IF tests.fatal
            THEN [status |-> "fatal", at |-> i,
                  AllImages |-> shipped, ImageBuilds |-> acc.ImageBuilds]
            ELSE IF v.BuilderImage = "" /\ Len(images) = 0
            THEN [status |-> "panic", at |-> i,
                  AllImages |-> shipped, ImageBuilds |-> acc.ImageBuilds]
            ELSE VersionsLoop(reg, sp, opts, sTests, fTests, i + 1,
                    [AllImages |-> shipped,
                     ImageBuilds |->
                        Append(acc.ImageBuilds, ImageBuild(reg, v, images, tests))])

\* The tests to run: none unless options.RunTests.
StructureTestsOf(opts) ==
    IF opts.RunTests THEN readTests(testsDir) \o readTests(structureTestsDir)
    ELSE <<>>

FunctionalTestsOf(opts) ==
    IF opts.RunTests THEN readTests(functionalTestsDir) ELSE <<>>

newCloudBuildTemplateData(reg, sp, opts) ==
    LET structureTests == StructureTestsOf(opts)
        functionalTests == FunctionalTestsOf(opts)
        r == VersionsLoop(reg, sp, opts, structureTests, functionalTests, 1,
                          [AllImages |-> <<>>, ImageBuilds |-> <<>>])
    IN [status |-> r.status,
        at |-> r.at,
        data |-> [RequireNewTags |-> opts.RequireNewTags,
                  Parallel |-> shouldParallelize(opts, Len(sp.Versions),
                                                 Len(functionalTests)),
                  ImageBuilds |-> r.ImageBuilds,
                  AllImages |-> r.AllImages,
                  TimeoutSeconds |-> opts.TimeoutSeconds,
                  MachineType |-> opts.MachineType]]

(***************************************************************************)
(* cloudBuildTemplateString executed over the data (template.Execute).     *)
(* Every "- name:" entry the template writes is one step record: what it   *)
(* runs, the image of the range it was written in, its waitFor list (if    *)
(* one was written) and its id ("" when none was written).                 *)
(***************************************************************************)
Step(kind, name, args, image, hasWaitFor, waitFor, id) ==
    [kind |-> kind, name |-> name, args |-> args, image |-> image,
     hasWaitFor |-> hasWaitFor, waitFor |-> waitFor, id |-> id]

\* text/template evaluating .name on the data struct: a name that is no
\* field of the struct is an execution error.
HasField(d, name) == name \in DOMAIN d

\* {{- range .Images }} under {{- if .RequireNewTags }}
CheckSteps(d) ==
    IF d.RequireNewTags
    THEN [k \in 1..Len(d.Images) |->
            Step("check", "gcr.io/gcp-runtimes/check_if_tag_exists",
                 <<"python", "/main.py", "--image=" \o d.Images[k]>>,
                 0, FALSE, <<>>, "")]
    ELSE <<>>

ImageId(tag) == "image-" \o tag

\* {{ $testIndex }} counts from 0.
TestId(primary, testIndex) == "test-" \o primary \o "-" \o ToString(testIndex)

DockerBuild(b, n, parallel) ==
    Step("build", "gcr.io/cloud-builders/docker",
         <<"build", "--tag=" \o b.Tag, b.Directory>>, n,
         parallel, IF parallel THEN <<"-">> ELSE <<>>,
         IF parallel THEN ImageId(b.Tag) ELSE "")

BuildStep(b, n, parallel) ==
    IF b.Builder THEN DockerBuild(b, n, parallel)
    ELSE IF b.BuilderImage # ""
    THEN Step("build", b.BuilderImage, b.BuilderArgs, n,
              parallel, IF parallel THEN <<ImageId(b.BuilderImage)>> ELSE <<>>,
              IF parallel THEN ImageId(b.Tag) ELSE "")
    ELSE DockerBuild(b, n, parallel)

BuildSteps(d) ==
    [n \in 1..Len(d.ImageBuilds) |-> BuildStep(d.ImageBuilds[n], n, d.Parallel)]

StructureTestSteps(d) ==
    Flatten([n \in 1..Len(d.ImageBuilds) |->
        LET b == d.ImageBuilds[n]
        IN [k \in 1..Len(b.StructureTests) |->
              Step("structure_test", "gcr.io/gcp-runtimes/structure_test",
                   <<"--image", b.Tag, "--config", b.StructureTests[k]>>,
                   n, FALSE, <<>>, "")]])

FunctionalTestSteps(d) ==
    Flatten([n \in 1..Len(d.ImageBuilds) |->
        LET b == d.ImageBuilds[n]
        IN [k \in 1..Len(b.FunctionalTests) |->
              Step("functional_test", "gcr.io/$PROJECT_ID/functional_test",
                   <<"--verbose", "--vars", "IMAGE=" \o b.Tag, "--vars",
                     "UNIQUE=" \o ToString(n - 1) \o "-" \o ToString(k - 1),
                     "--test_spec", b.FunctionalTests[k]>>,
                   n, d.Parallel,
                   IF d.Parallel THEN <<ImageId(b.Tag)>> ELSE <<>>,
                   IF d.Parallel THEN TestId(b.Tag, k - 1) ELSE "")]])

\* The waitFor list of an alias step under $parallel.
AliasWaitFor(b) ==
    <<ImageId(b.Tag)>> \o
    [k \in 1..Len(b.FunctionalTests) |-> TestId(b.Tag, k - 1)]

AliasSteps(d) ==
    Flatten([n \in 1..Len(d.ImageBuilds) |->
        LET b == d.ImageBuilds[n]
        IN [k \in 1..Len(b.Aliases) |->
              Step("tag", "gcr.io/cloud-builders/docker",
                   <<"tag", b.Tag, b.Aliases[k]>>,
                   n, d.Parallel,
                   IF d.Parallel THEN AliasWaitFor(b) ELSE <<>>, "")]])

NoResult ==
    [err |-> FALSE, steps |-> <<>>, images |-> <<>>, timeout |-> 0,
     machineType |-> ""]

\* Execute stops at the first error and leaves what it had written: at the
\* range over .Images that is the "steps:" header and a comment.
Execute(d) ==
    IF d.RequireNewTags /\ ~HasField(d, "Images")
    THEN [NoResult EXCEPT !.err = TRUE]
    ELSE [err |-> FALSE,
          steps |-> CheckSteps(d) \o BuildSteps(d) \o StructureTestSteps(d)
                    \o FunctionalTestSteps(d) \o AliasSteps(d),
          images |-> d.AllImages,
          timeout |-> d.TimeoutSeconds,
          machineType |-> IF d.Parallel THEN "E2_HIGHCPU_8" ELSE d.MachineType]

(***************************************************************************)
(* Execution of the emitted steps.  A step that names no waitFor waits for *)
(* every step written before it; one that waits for '-' waits for nothing; *)
(* one that names ids waits for the steps carrying them.  A plan naming an *)
(* id that no step carries is not accepted for execution.                  *)
(***************************************************************************)
DeclaredIds(steps) == {steps[j].id : j \in 1..Len(steps)} \ {""}

WaitedIds(st) == Range(st.waitFor) \ {"-"}

Accepted(steps) ==
    \A j \in 1..Len(steps) : WaitedIds(steps[j]) \subseteq DeclaredIds(steps)

WaitsOn(steps, i) ==
    IF ~steps[i].hasWaitFor THEN 1..(i - 1)
    ELSE {j \in 1..Len(steps) :
            steps[j].id # "" /\ steps[j].id \in WaitedIds(steps[i])}

(***************************************************************************)
(* Actions.                                                                *)
(***************************************************************************)
NoData ==
    [RequireNewTags |-> FALSE, Parallel |-> FALSE, ImageBuilds |-> <<>>,
     AllImages |-> <<>>, TimeoutSeconds |-> 0, MachineType |-> ""]

\* renderCloudBuildConfig, first statement: newCloudBuildTemplateData.
Compile ==
    /\ pc = "start"
    /\ LET r == newCloudBuildTemplateData(registry, spec, options)
       IN /\ pc' = r.status
          /\ at' = r.at
          /\ data' = IF r.status = "compiled" THEN r.data ELSE data
    /\ UNCHANGED <<spec, options, disk, result, run>>

\* renderCloudBuildConfig, the rest: the template executed into the buffer.
Render ==
    /\ pc = "compiled"
    /\ pc' = "rendered"
    /\ result' = Execute(data)
    /\ run' = [j \in 1..Len(result'.steps) |-> "pending"]
    /\ UNCHANGED <<spec, options, disk, at, data>>

StartStep(i) ==
    /\ pc = "rendered"
    /\ i \in 1..Len(result.steps)
    /\ run[i] = "pending"
    /\ Accepted(result.steps)
    /\ \A j \in WaitsOn(result.steps, i) : run[j] = "done"
    /\ run' = [run EXCEPT ![i] = "running"]
    /\ UNCHANGED <<spec, options, disk, pc, at, data, result>>

FinishStep(i) ==
    /\ pc = "rendered"
    /\ i \in 1..Len(result.steps)
    /\ run[i] = "running"
    /\ run' = [run EXCEPT ![i] = "done"]
    /\ UNCHANGED <<spec, options, disk, pc, at, data, result>>

(***************************************************************************)
(* Inputs: manifests, options and tests directories.                       *)
(***************************************************************************)
DirNames == {"a", "b"}

DirChoices == {<<>>, <<"a">>, <<"b">>}

TagName(j) == "t" \o ToString(j)

TagLists == {[j \in 1..n |-> TagName(j)] : n \in 0..MaxTags}

RepoName(i) == "r" \o ToString(i)

\* A builder-image reference is a "repo:tag" name under the registry.
BuilderRefs == {"", RepoName(1) \o ":" \o TagName(1)}

TestFile(base) == [Base |-> base, Suffix |-> testYamlSuffix, IsDir |-> FALSE]

\* A tests tree with nS structure tests and nF functional tests, beside
\* entries readTests must skip.
Disk(nS, nF) ==
    (structureTestsDir :> ([k \in 1..nS |-> TestFile("s" \o ToString(k))]
                           \o <<[Base |-> "README", Suffix |-> ".md",
                                 IsDir |-> FALSE]>>))
    @@ (functionalTestsDir :> ([k \in 1..nF |-> TestFile("f" \o ToString(k))]
                               \o <<[Base |-> "data", Suffix |-> "_test.yaml",
                                     IsDir |-> TRUE]>>))

\* Exclusions are named relative to the workspace.
ExcludeNames ==
    {structureTestsDir \o "/s1_test.yaml",
     functionalTestsDir \o "/f1_test.yaml",
     functionalTestsDir \o "/gone_test.yaml"}

\* The versions.Version at position i of the manifest: one repository per
\* position, so that no repo:tag is declared twice.
Version(i, shape) ==
    [Dir |-> shape.Dir,
     Repo |-> RepoName(i),
     Tags |-> shape.Tags,
     Builder |-> shape.Builder,
     BuilderImage |-> shape.BuilderImage,
     BuilderArgs |-> IF shape.BuilderImage = "" THEN <<>> ELSE <<"make">>,
     ImageNameFromBuilder |->
        IF shape.BuilderImage = "" THEN ""
        ELSE ImageName(registry, RepoName(i), "built"),
     ExcludeTests |-> shape.ExcludeTests]

ManifestsOver(shapes, lengths) ==
    UNION {{[Versions |-> [i \in 1..n |-> Version(i, s[i])]] :
                s \in [1..n -> shapes]} : n \in lengths}

InitWith(manifests, opts, disks) ==
    /\ spec \in manifests
    /\ options \in opts
    /\ disk \in disks
    /\ pc = "start"
    /\ at = 0
    /\ data = NoData
    /\ result = NoResult
    /\ run = <<>>

\* Manifests of every shape of image definition, compiled under the options
\* that select and expand them.
InitShapes ==
    InitWith(
        ManifestsOver([Dir : DirNames, Tags : TagLists, Builder : BOOLEAN,
                       BuilderImage : BuilderRefs, ExcludeTests : {<<>>}],
                      0..MaxVersions),
        [Directories : DirChoices, RunTests : {TRUE}, RequireNewTags : {FALSE},
         FirstTagOnly : BOOLEAN, TimeoutSeconds : {0}, MachineType : {""},
         EnableParallel : {FALSE}, ForceParallel : {FALSE}],
        {Disk(1, 1)})

\* Every combination of the options, over manifests of fully tagged images.
InitOptions ==
    InitWith(
        ManifestsOver([Dir : DirNames, Tags : {[j \in 1..MaxTags |-> TagName(j)]},
                       Builder : BOOLEAN, BuilderImage : {""},
                       ExcludeTests : {<<>>}],
                      0..MaxVersions),
        [Directories : DirChoices, RunTests : BOOLEAN, RequireNewTags : BOOLEAN,
         FirstTagOnly : BOOLEAN, TimeoutSeconds : {0}, MachineType : {""},
         EnableParallel : BOOLEAN, ForceParallel : BOOLEAN],
        {Disk(1, nF) : nF \in 0..MaxFunctionalTests})

\* One image definition with every exclusion list.
InitExclusions ==
    InitWith(
        ManifestsOver([Dir : {"a"}, Tags : TagLists, Builder : {FALSE},
                       BuilderImage : BuilderRefs,
                       ExcludeTests : SeqsUpTo(ExcludeNames, MaxExcludes)],
                      {1}),
        [Directories : {<<>>}, RunTests : BOOLEAN, RequireNewTags : {FALSE},
         FirstTagOnly : {FALSE}, TimeoutSeconds : {0}, MachineType : {""},
         EnableParallel : {FALSE}, ForceParallel : {FALSE}],
        {Disk(nS, nF) : nS \in 0..1, nF \in 0..MaxFunctionalTests})

Init == InitShapes \/ InitOptions \/ InitExclusions

Next == Compile \/ Render

Spec == Init /\ [][Next]_vars

\* Plans of tested, tagged images, each built directly or by a builder
\* image, run to completion.
ExecInit ==
    InitWith(
        ManifestsOver({s \in [Dir : DirNames, Tags : TagLists \ {<<>>},
                              Builder : BOOLEAN, BuilderImage : BuilderRefs,
                              ExcludeTests : {<<>>}] :
                          ~(s.Builder /\ s.BuilderImage # "")},
                      1..MaxVersions),
        [Directories : {<<>>, <<"b">>}, RunTests : {TRUE},
         RequireNewTags : {FALSE}, FirstTagOnly : {FALSE},
         TimeoutSeconds : {0}, MachineType : {""},
         EnableParallel : {FALSE}, ForceParallel : BOOLEAN],
        {Disk(1, 1)})

ExecNext ==
    \/ Compile
    \/ Render
    \/ \E i \in 1..Len(result.steps) : StartStep(i)
    \/ \E i \in 1..Len(result.steps) : FinishStep(i)

ExecSpec == ExecInit /\ [][ExecNext]_vars

(***************************************************************************)
(* Vocabulary of the properties.                                           *)
(***************************************************************************)
V == spec.Versions

Compiled == pc \in {"compiled", "rendered"}

\* The directory selection as the options state it.
IsSelected(i) ==
    options.Directories = <<>> \/ V[i].Dir \in Range(options.Directories)

SelectedSeq == SelectSeq([i \in 1..Len(V) |-> i], IsSelected)

\* The fully-qualified names of an image definition's tags.
NameOfTag(v, k) == ImageName(registry, v.Repo, v.Tags[k])

NamesOf(v) == {NameOfTag(v, k) : k \in 1..Len(v.Tags)}

\* The name a step is built under.
CanonicalName(v) ==
    IF v.BuilderImage # "" THEN v.ImageNameFromBuilder ELSE NameOfTag(v, 1)

\* How many entries of the sequence s lie in the set S.
CountIn(s, S) == Cardinality({k \in 1..Len(s) : s[k] \in S})

\* The catalog of discovered tests.
Catalog == Range(StructureTestsOf(options)) \cup Range(FunctionalTestsOf(options))

Resolves(name) == (workspacePrefix \o name) \in Catalog

ValidExclusions(v) == \A k \in 1..Len(v.ExcludeTests) : Resolves(v.ExcludeTests[k])

Excluded(v) == {workspacePrefix \o v.ExcludeTests[k] : k \in 1..Len(v.ExcludeTests)}

NotExcluded(v, t) == t \notin Excluded(v)

StepsOfKind(kind) ==
    {j \in 1..Len(result.steps) : result.steps[j].kind = kind}

(***************************************************************************)
(* C4: the plan is parallel exactly when force-parallel is set, or         *)
(* enable-parallel is set and the manifest has more than one image         *)
(* definition or more than one functional test was discovered; so          *)
(* enable-parallel alone with one definition and no functional test is     *)
(* sequential, and force-parallel is parallel whatever the counts, the     *)
(* run-tests flag and the directory filter are.                            *)
(***************************************************************************)
C4_ParallelFlag ==
    Compiled =>
        /\ data.Parallel =
              (options.ForceParallel
               \/ (options.EnableParallel
                   /\ (Len(V) > 1 \/ Len(FunctionalTestsOf(options)) > 1)))
        /\ (options.EnableParallel /\ ~options.ForceParallel /\ Len(V) = 1
            /\ Len(FunctionalTestsOf(options)) = 0 => ~data.Parallel)
        /\ (options.ForceParallel => data.Parallel)

C4_Witness ==
    /\ pc = "compiled"
    /\ options.ForceParallel /\ ~options.EnableParallel /\ ~options.RunTests
    /\ Len(options.Directories) > 0
    /\ Len(V) = 2 /\ Len(data.ImageBuilds) = 1
    /\ data.Parallel

(***************************************************************************)
(* C5: the plan holds one build step for each image definition whose       *)
(* directory is selected and none for any other, in manifest order; an     *)
(* empty selection selects every image definition.                         *)
(***************************************************************************)
C5_DirectoryFilter ==
    Compiled =>
        /\ Len(data.ImageBuilds) = Len(SelectedSeq)
        /\ \A n \in 1..Len(data.ImageBuilds) :
              /\ data.ImageBuilds[n].Directory = V[SelectedSeq[n]].Dir
              /\ data.ImageBuilds[n].Tag = CanonicalName(V[SelectedSeq[n]])
        /\ (options.Directories = <<>> => Len(data.ImageBuilds) = Len(V))

C5_Witness ==
    /\ pc = "compiled"
    /\ options.Directories = <<"b">>
    /\ Len(V) = 2 /\ V[1].Dir = "a" /\ V[2].Dir = "b"
    /\ Len(data.ImageBuilds) = 1

(***************************************************************************)
(* C6: no name of a builder-only image definition is in the shippable      *)
(* list, whatever the options; a selected builder-only definition still    *)
(* has its build step; a selected definition that is not builder-only has  *)
(* every name of its expansion in the shippable list.                      *)
(***************************************************************************)
C6_BuilderOnlyNotShipped ==
    Compiled =>
        \A i \in 1..Len(V) :
            /\ V[i].Builder =>
                  NamesOf(V[i]) \cap Range(data.AllImages) = {}
            /\ V[i].Builder /\ IsSelected(i) =>
                  \E n \in 1..Len(data.ImageBuilds) :
                      /\ data.ImageBuilds[n].Builder
                      /\ data.ImageBuilds[n].Directory = V[i].Dir
                      /\ data.ImageBuilds[n].Tag = CanonicalName(V[i])
            /\ ~V[i].Builder /\ IsSelected(i) =>
                  \A k \in 1..Len(V[i].Tags) :
                      (k = 1 \/ ~options.FirstTagOnly) =>
                          NameOfTag(V[i], k) \in Range(data.AllImages)

C6_Witness ==
    /\ pc = "compiled"
    /\ Len(V) = 2
    /\ V[1].Builder /\ Len(V[1].Tags) = 2 /\ IsSelected(1)
    /\ ~V[2].Builder /\ Len(V[2].Tags) = 2 /\ IsSelected(2)
    /\ Len(data.ImageBuilds) = 2
    /\ Len(data.AllImages) = 2

(***************************************************************************)
(* C8 as stated: with first-tag-only, every selected image definition that *)
(* is not builder-only has exactly one name in the shippable list, the one *)
(* of its first tag.                                                       *)
(***************************************************************************)
C8_ExactlyOneName ==
    Compiled /\ options.FirstTagOnly =>
        \A i \in 1..Len(V) :
            ~V[i].Builder /\ IsSelected(i) =>
                /\ Len(V[i].Tags) > 0
                /\ CountIn(data.AllImages, NamesOf(V[i])) = 1
                /\ NameOfTag(V[i], 1) \in Range(data.AllImages)

(***************************************************************************)
(* C8 amended: with first-tag-only, every selected image definition that   *)
(* is not builder-only and has a tag has exactly one name in the shippable *)
(* list, the one of its first tag, and one without tags has none; no step  *)
(* carries an alias for a tag after the first; and the build steps, with   *)
(* their directories, target tags and builders, are those compiled with    *)
(* first-tag-only unset.                                                   *)
(***************************************************************************)
C8_FirstTagOnly ==
    Compiled /\ options.FirstTagOnly =>
        /\ \A i \in 1..Len(V) :
              ~V[i].Builder /\ IsSelected(i) =>
                  /\ CountIn(data.AllImages, NamesOf(V[i])) =
                        (IF Len(V[i].Tags) > 0 THEN 1 ELSE 0)
                  /\ Len(V[i].Tags) > 0 =>
                        NameOfTag(V[i], 1) \in Range(data.AllImages)
        /\ \A i \in 1..Len(V) : \A k \in 2..Len(V[i].Tags) :
              \A n \in 1..Len(data.ImageBuilds) :
                  NameOfTag(V[i], k) \notin Range(data.ImageBuilds[n].Aliases)
        /\ LET all == newCloudBuildTemplateData(
                          registry, spec, [options EXCEPT !.FirstTagOnly = FALSE])
           IN /\ all.status = "compiled"
              /\ Len(all.data.ImageBuilds) = Len(data.ImageBuilds)
              /\ \A n \in 1..Len(data.ImageBuilds) :
                    /\ all.data.ImageBuilds[n].Directory = data.ImageBuilds[n].Directory
                    /\ all.data.ImageBuilds[n].Tag = data.ImageBuilds[n].Tag
                    /\ all.data.ImageBuilds[n].BuilderImage =
                          data.ImageBuilds[n].BuilderImage

C8_Witness ==
    /\ pc = "compiled"
    /\ options.FirstTagOnly
    /\ Len(V) = 2
    /\ \A i \in 1..2 : ~V[i].Builder /\ IsSelected(i) /\ Len(V[i].Tags) = 2
    /\ V[1].BuilderImage = "" /\ V[2].BuilderImage # ""
    /\ Len(data.AllImages) = 2
    /\ data.ImageBuilds[1].Aliases = <<>>

\* The builder reference of the build b names the first tag of an image
\* definition of the manifest that is itself built directly.
BuilderDeclared(b) ==
    \E k \in 1..Len(V) :
        /\ Len(V[k].Tags) > 0
        /\ NameOfTag(V[k], 1) = b.BuilderImage
        /\ V[k].BuilderImage = ""

(***************************************************************************)
(* C1: under parallel scheduling, the build step of an image definition    *)
(* that declares a builder image, the builder being an image definition of *)
(* the same manifest, waits for the id of the builder's build step: some   *)
(* build step of the plan carries the id it waits for, and it does not     *)
(* start before that step is done.                                         *)
(***************************************************************************)
C1_WaitsForBuilderStep ==
    pc = "rendered" /\ ~result.err /\ data.Parallel =>
        \A j \in StepsOfKind("build") :
            LET b == data.ImageBuilds[result.steps[j].image]
            IN b.BuilderImage # "" /\ BuilderDeclared(b) =>
                  /\ result.steps[j].waitFor = <<ImageId(b.BuilderImage)>>
                  /\ \E d \in StepsOfKind("build") :
                        /\ result.steps[d].id = ImageId(b.BuilderImage)
                        /\ (run[j] # "pending" => run[d] = "done")

(***************************************************************************)
(* C2: under parallel scheduling, no alias step has started while the      *)
(* build step, a structure test step or a functional test step of the same *)
(* image is not done.                                                      *)
(***************************************************************************)
C2_AliasWaitsForBuildAndTests ==
    pc = "rendered" /\ data.Parallel =>
        \A a \in StepsOfKind("tag") : \A j \in 1..Len(result.steps) :
            /\ result.steps[j].image = result.steps[a].image
            /\ result.steps[j].kind \in {"build", "structure_test", "functional_test"}
            /\ run[a] # "pending"
            => run[j] = "done"

(***************************************************************************)
(* C3: compilation aborts in test resolution only if a name of the         *)
(* exclusion list resolves to no catalog path; when every name resolves,   *)
(* each built image has exactly the catalog tests its list does not name,  *)
(* in catalog order.                                                       *)
(***************************************************************************)
C3_AbortIffUnknownExclusion ==
    /\ pc = "fatal" => ~ValidExclusions(V[at])
    /\ pc = "panic" => ValidExclusions(V[at])
    /\ Compiled =>
          \A n \in 1..Len(data.ImageBuilds) :
              LET v == V[SelectedSeq[n]]
                  Kept(t) == NotExcluded(v, t)
              IN /\ ValidExclusions(v)
                 /\ data.ImageBuilds[n].StructureTests =
                       SelectSeq(StructureTestsOf(options), Kept)
                 /\ data.ImageBuilds[n].FunctionalTests =
                       SelectSeq(FunctionalTestsOf(options), Kept)

NotCheck(st) == st.kind # "check"

(***************************************************************************)
(* C7: with require-new-tags, the emitted plan has exactly one tag check   *)
(* for each name of the shippable list, every check precedes every build   *)
(* step, and the other steps and the image list are those emitted without  *)
(* require-new-tags.                                                       *)
(***************************************************************************)
C7_PreflightChecks ==
    pc = "rendered" /\ data.RequireNewTags =>
        /\ Cardinality(StepsOfKind("check")) = Len(data.AllImages)
        /\ \A k \in 1..Len(data.AllImages) :
              Cardinality({c \in StepsOfKind("check") :
                  result.steps[c].args[3] = "--image=" \o data.AllImages[k]}) = 1
        /\ \A c \in StepsOfKind("check") : \A j \in StepsOfKind("build") : c < j
        /\ LET plain == Execute([data EXCEPT !.RequireNewTags = FALSE])
           IN /\ SelectSeq(result.steps, NotCheck) = plain.steps
              /\ result.images = plain.images

(***************************************************************************)
(* C9: the aliases of a step are names of non-primary tags of its image    *)
(* definition: a step never aliases the name it is built under, the step   *)
(* of a builder-only image has no alias, the step of any other image       *)
(* carries every tag after the first, and every alias is in the shippable  *)
(* list.                                                                   *)
(***************************************************************************)
C9_AliasesAreShippedNonPrimaryTags ==
    Compiled =>
        \A n \in 1..Len(data.ImageBuilds) :
            LET b == data.ImageBuilds[n]
                v == V[SelectedSeq[n]]
            IN /\ b.Tag \notin Range(b.Aliases)
               /\ Range(b.Aliases) \subseteq NamesOf(v)
               /\ b.Builder => b.Aliases = <<>>
               /\ ~b.Builder /\ ~options.FirstTagOnly =>
                     \A k \in 2..Len(v.Tags) : NameOfTag(v, k) \in Range(b.Aliases)
               /\ Range(b.Aliases) \subseteq Range(data.AllImages)

(***************************************************************************)
(* C10: when the exclusion lists of the selected image definitions are     *)
(* valid, compilation does not abort, and it returns one step for each     *)
(* selected image definition, also for one with no tag and no builder      *)
(* image.                                                                  *)
(***************************************************************************)
C10_OnlyExclusionsAbort ==
    (\A i \in 1..Len(V) : IsSelected(i) => ValidExclusions(V[i])) =>
        /\ pc \notin {"fatal", "panic"}
        /\ Compiled => Len(data.ImageBuilds) = Len(SelectedSeq)

====
